---- MODULE Spec2Model ----
(***************************************************************************)
(* MixedContentsManager: a contents manager that dispatches every storage  *)
(* operation to the contents manager mounted at the longest matching path  *)
(* prefix (mixed_contents_manager.py).                                     *)
(*                                                                         *)
(* Python strings are sequences of one-character strings, so that strip,   *)
(* split, the ordering used by sorted() and pathlib's parsing are computed *)
(* character by character as the code computes them.                       *)
(***************************************************************************)
EXTENDS Integers, Sequences, FiniteSets, TLC

VARIABLES
    mount_points_config,    \* the traitlet: the configuration string
    mount_points_managers,  \* self.mount_points_managers: mount point -> manager
    phase,                  \* "new" before __init__ ran, then "ready" or "failed"
    down,                   \* backend state: the mounted managers that currently fail
    last                    \* the last invocation: its arguments, backend calls, outcome

vars == <<mount_points_config, mount_points_managers, phase, down, last>>

----------------------------------------------------------------------------
(* Bounds of the model *)

\* the longest path handed to path_lookup
MaxPathLen == 5
\* the largest number of entries of a configuration string
MaxMounts == 2
\* the deepest nesting of directory records a backend returns
MaxNest == 2

----------------------------------------------------------------------------
(* Python str *)

\* ord(): the code points sorted() compares
Ord(c) ==
    CASE c = "," -> 44
      [] c = "." -> 46
      [] c = "/" -> 47
      [] c = ":" -> 58
      [] c = "X" -> 88
      [] c = "Y" -> 89
      [] c = "b" -> 98
      [] c = "c" -> 99
      [] c = "o" -> 111

RECURSIVE lstrip(_, _)
lstrip(s, ch) ==
    IF s # <<>> /\ Head(s) = ch THEN lstrip(Tail(s), ch) ELSE s

RECURSIVE rstrip(_, _)
rstrip(s, ch) ==
    IF s # <<>> /\ s[Len(s)] = ch THEN rstrip(SubSeq(s, 1, Len(s) - 1), ch) ELSE s

\* str.strip(ch)
strip(s, ch) == rstrip(lstrip(s, ch), ch)

\* str.split(sep): cut at the leftmost occurrences of sep
RECURSIVE split(_, _)
split(s, sep) ==
    LET at == {i \in 1..(Len(s) - Len(sep) + 1) : SubSeq(s, i, i + Len(sep) - 1) = sep}
    IN  IF at = {} THEN <<s>>
        ELSE LET i == CHOOSE k \in at : \A j \in at : k <= j
             IN  <<SubSeq(s, 1, i - 1)>> \o split(SubSeq(s, i + Len(sep), Len(s)), sep)

\* sep.join(parts)
RECURSIVE join(_, _)
join(parts, sep) ==
    IF parts = <<>> THEN <<>>
    ELSE IF Len(parts) = 1 THEN parts[1]
    ELSE parts[1] \o sep \o join(Tail(parts), sep)

\* s < t for str: lexicographic by code point
RECURSIVE StrLess(_, _)
StrLess(s, t) ==
    IF t = <<>> THEN FALSE
    ELSE IF s = <<>> THEN TRUE
    ELSE IF Head(s) = Head(t) THEN StrLess(Tail(s), Tail(t))
    ELSE Ord(Head(s)) < Ord(Head(t))

\* sorted(keys, reverse=True)
RECURSIVE sorted_reverse(_)
sorted_reverse(S) ==
    IF S = {} THEN <<>>
    ELSE LET m == CHOOSE x \in S : \A y \in S : y = x \/ StrLess(y, x)
         IN  <<m>> \o sorted_reverse(S \ {m})

----------------------------------------------------------------------------
(* pathlib.PurePath (posix flavour): a root and the list of segments *)

\* PurePath(s): exactly two leading slashes are the root "//", any other number
\* of them is "/"; empty segments and "." segments are dropped
PurePath(s) ==
    LET rel  == lstrip(s, "/")
        lead == Len(s) - Len(rel)
    IN  [root |-> IF lead = 0 THEN <<>>
                  ELSE IF lead = 2 THEN <<"/", "/">> ELSE <<"/">>,
         segs |-> SelectSeq(split(rel, <<"/">>), LAMBDA x : x # <<>> /\ x # <<".">>)]

\* str(path)
PathStr(p) ==
    IF p.root = <<>> /\ p.segs = <<>> THEN <<".">>
    ELSE p.root \o join(p.segs, <<"/">>)

\* abs_parts: the root, when there is one, counts as the first part
AbsParts(p) == IF p.root = <<>> THEN p.segs ELSE <<p.root>> \o p.segs

\* self.is_relative_to(other)
is_relative_to(self, other) ==
    LET a == AbsParts(self)
        b == AbsParts(other)
    IN  IF Len(b) = 0 THEN self.root = <<>>
        ELSE Len(b) <= Len(a) /\ SubSeq(a, 1, Len(b)) = b

\* self.relative_to(other), where self.is_relative_to(other)
relative_to(self, other) ==
    LET a == AbsParts(self)
        n == Len(AbsParts(other))
    IN  [root |-> IF n = 0 THEN self.root ELSE <<>>,
         segs |-> IF n = 0 THEN self.segs ELSE SubSeq(a, n + 1, Len(a))]

\* self / other
truediv(self, other) ==
    IF other.root # <<>> THEN other
    ELSE [root |-> self.root, segs |-> self.segs \o other.segs]

----------------------------------------------------------------------------
(* Path resolution *)

get_full_path(mount_point, child_path) ==
    LET stripped_child_path == strip(child_path, "/")
    IN  PathStr(truediv(PurePath(<<"/">> \o mount_point), PurePath(stripped_child_path)))

\* The mount points get_mount_point's generator yields, in order
Candidates(keys, path) ==
    LET stripped_path == strip(path, "/")
    IN  SelectSeq(sorted_reverse(keys),
                  LAMBDA mount_point :
                      is_relative_to(PurePath(<<"/">> \o stripped_path),
                                     PurePath(<<"/">> \o mount_point)))

\* next(...) of the generator: StopIteration when it yields nothing
get_mount_point(keys, path) ==
    LET c == Candidates(keys, path)
    IN  IF c = <<>> THEN [err |-> "StopIteration", val |-> <<>>]
        ELSE [err |-> "", val |-> c[1]]

\* get_child_path without the removal of the mount point
get_child_path_whole(mount_point, path) ==
    LET child_path == PathStr(relative_to(PurePath(<<"/">> \o strip(path, "/")),
                                          PurePath(<<"/">>)))
    IN  IF child_path = <<".">> THEN <<>> ELSE child_path

get_child_path(mount_point, path) ==
    LET stripped_path == strip(path, "/")
        child_path == PathStr(relative_to(PurePath(<<"/">> \o stripped_path),
                                          PurePath(<<"/">> \o mount_point)))
    IN  IF child_path = <<".">> THEN <<>> ELSE child_path

NoManager == [cls |-> <<>>, at |-> <<>>]

\* returns manager, mount_point, child_path
path_lookup(managers, path) ==
    LET mp == get_mount_point(DOMAIN managers, path)
    IN  IF mp.err # ""
        THEN [err |-> mp.err, manager |-> NoManager, mount_point |-> <<>>, child_path |-> <<>>]
        ELSE [err |-> "", manager |-> managers[mp.val], mount_point |-> mp.val,
              child_path |-> get_child_path(mp.val, path)]

----------------------------------------------------------------------------
(* Construction *)

NoManagers == [k \in {} |-> NoManager]

\* "prefix:::class[,...]" -> {prefix: class}; a later entry overwrites an earlier
\* one with the same key; an entry without ":::" has no field [1]: IndexError
parse_mount_points_config(conf) ==
    IF conf = <<>> THEN [err |-> "", val |-> [k \in {} |-> <<>>]]
    ELSE LET path_class == split(conf, <<",">>)
             fields(i)  == split(path_class[i], <<":", ":", ":">>)
             n          == Len(path_class)
         IN  IF \E i \in 1..n : Len(fields(i)) < 2
             THEN [err |-> "IndexError", val |-> [k \in {} |-> <<>>]]
             ELSE [err |-> "",
                   val |-> [k \in {fields(i)[1] : i \in 1..n} |->
                              LET i == CHOOSE j \in 1..n :
                                           /\ fields(j)[1] = k
                                           /\ \A h \in (j + 1)..n : fields(h)[1] # k
                              IN  fields(i)[2]]]

\* import_item(cls)(): one manager instance for each mount point
NewManager(mount_point, cls) == [cls |-> cls, at |-> mount_point]

\* The dict comprehension of __init__
NewManagers(classes) ==
    [mount_point \in DOMAIN classes |-> NewManager(mount_point, classes[mount_point])]

\* MixedContentsManager.__init__
Construct ==
    /\ phase = "new"
    /\ LET parsed == parse_mount_points_config(mount_points_config)
       IN  IF parsed.err # ""
           THEN /\ phase' = "failed"
                /\ UNCHANGED mount_points_managers
           ELSE /\ phase' = "ready"
                /\ mount_points_managers' = NewManagers(parsed.val)
    /\ UNCHANGED <<mount_points_config, down, last>>

----------------------------------------------------------------------------
(* Python values crossing the backend interface: None, bool, str and the item
   records (dict) of the contents API.  keys is the set of keys a dict holds;
   content is absent, None or a list of records. *)

NoContent == [ckind |-> "absent", items |-> <<>>]
NoneContent == [ckind |-> "None", items |-> <<>>]
ListContent(items) == [ckind |-> "list", items |-> items]

NoneV == [kind |-> "None", b |-> FALSE, keys |-> {}, path |-> <<>>, type |-> "",
          content |-> NoContent]
BoolV(b) == [NoneV EXCEPT !.kind = "bool", !.b = b]
StrV(s) == [NoneV EXCEPT !.kind = "str", !.path = s]
DictV(keys, path, type, content) ==
    [kind |-> "dict", b |-> FALSE, keys |-> keys, path |-> path, type |-> type,
     content |-> content]

\* bool(model)
Truthy(model) ==
    CASE model.kind = "None" -> FALSE
      [] model.kind = "bool" -> model.b
      [] model.kind = "str"  -> model.path # <<>>
      [] model.kind = "list" -> model.content.items # <<>>
      [] model.kind = "dict" -> model.keys # {}

is_iterable(x) == x.kind \in {"str", "list", "dict"}

\* The characters of the two keys transform_child_model looks for
KeyChars(key) ==
    IF key = "path" THEN <<"p", "a", "t", "h">> ELSE <<"t", "y", "p", "e">>

\* key in model: a key of a dict, an element of a list (the lists here hold
\* records, never strings), a substring of a str
HasKey(model, key) ==
    CASE model.kind = "dict" -> key \in model.keys
      [] model.kind = "list" -> FALSE
      [] model.kind = "str"  -> Len(split(model.path, KeyChars(key))) > 1
      [] OTHER -> FALSE

\* Mutating. Update the paths in a returned model to match the mount point.
\* A str does not support item assignment (TypeError); model["content"] raises
\* KeyError when the key is absent, and iterating None raises TypeError; an
\* error in a child propagates.
RECURSIVE transform_child_model(_, _)
transform_child_model(mount_point, model) ==
    IF /\ Truthy(model) /\ is_iterable(model)
       /\ HasKey(model, "path") /\ HasKey(model, "type")
    THEN IF model.kind # "dict" THEN [err |-> "TypeError", val |-> NoneV]
         ELSE
         LET m1 == [model EXCEPT !.path = get_full_path(mount_point, model.path)]
         IN  IF m1.type # "directory" THEN [err |-> "", val |-> m1]
             ELSE IF "content" \notin m1.keys THEN [err |-> "KeyError", val |-> NoneV]
             ELSE IF m1.content.ckind # "list" THEN [err |-> "TypeError", val |-> NoneV]
             ELSE LET kids == [i \in 1..Len(m1.content.items) |->
                                  transform_child_model(mount_point, m1.content.items[i])]
                      bad  == {i \in 1..Len(kids) : kids[i].err # ""}
                  IN  IF bad # {}
                      THEN [err |-> kids[CHOOSE i \in bad : \A j \in bad : i <= j].err,
                            val |-> NoneV]
                      ELSE [err |-> "",
                            val |-> [m1 EXCEPT !.content =
                                        ListContent([i \in 1..Len(kids) |-> kids[i].val])]]
    ELSE [err |-> "", val |-> model]

----------------------------------------------------------------------------
(* The record of an invocation *)

NoLookup == [err |-> "none", manager |-> NoManager, mount_point |-> <<>>,
             child_path |-> <<>>]

\* args and kwargs are the caller's; a and b are the results of the first and
\* the second _path_lookup; calls are the backend calls made, in order; raw is
\* what the backend returned; err and ret are what the caller gets
Idle == [op |-> "", args |-> <<>>, kwargs |-> {}, a |-> NoLookup, b |-> NoLookup,
         calls |-> <<>>, raw |-> NoneV, err |-> "", ret |-> NoneV]

\* MixedContentsManager._path_lookup
PathLookup(path) ==
    /\ phase = "ready"
    /\ last = Idle
    /\ LET r == path_lookup(mount_points_managers, path)
       IN  last' = [Idle EXCEPT !.op = "_path_lookup", !.args = <<StrV(path)>>,
                                !.a = r, !.err = r.err]
    /\ UNCHANGED <<mount_points_config, mount_points_managers, phase, down>>

\* The synchronous call is over: the caller has taken its outcome
Return ==
    /\ last # Idle
    /\ last' = Idle
    /\ UNCHANGED <<mount_points_config, mount_points_managers, phase, down>>

----------------------------------------------------------------------------
(* The dispatcher.  Each operator gives the record of one whole invocation;
   ret is what the backend returns if it is called and does not fail. *)

\* getattr(manager, method)(*args, **kwargs)
Call(manager, method, args, kwargs) ==
    [manager |-> manager, op |-> method, args |-> args, kwargs |-> kwargs]

\* An exception raised before any backend call
Raised(inv, err) == [inv EXCEPT !.err = err]

\* The backend call: a manager that is down raises, and the error propagates;
\* otherwise its result goes through transform_child_model when transform is set
Forwarded(inv, mount_point, call, ret, transform) ==
    IF call.manager.at \in down
    THEN [inv EXCEPT !.calls = <<call>>, !.err = "BackendError"]
    ELSE LET t == IF transform THEN transform_child_model(mount_point, ret)
                  ELSE [err |-> "", val |-> ret]
         IN  [inv EXCEPT !.calls = <<call>>, !.raw = ret, !.err = t.err, !.ret = t.val]

\* path_dispatch1 forwarding the unified path instead of the child path
path_dispatch1_unified(method, path, kwargs, ret) ==
    LET r   == path_lookup(mount_points_managers, path)
        inv == [Idle EXCEPT !.op = method, !.args = <<StrV(path)>>, !.kwargs = kwargs,
                            !.a = r]
    IN  IF r.err # "" THEN Raised(inv, r.err)
        ELSE Forwarded(inv, r.mount_point,
                       Call(r.manager, method, <<StrV(path)>>, kwargs),
                       ret, TRUE)

path_dispatch1(method, path, kwargs, ret) ==
    LET r   == path_lookup(mount_points_managers, path)
        inv == [Idle EXCEPT !.op = method, !.args = <<StrV(path)>>, !.kwargs = kwargs,
                            !.a = r]
    IN  IF r.err # "" THEN Raised(inv, r.err)
        ELSE Forwarded(inv, r.mount_point,
                       Call(r.manager, method, <<StrV(r.child_path)>>, kwargs),
                       ret, TRUE)

path_dispatch2(method, other, path, ret) ==
    LET r   == path_lookup(mount_points_managers, path)
        inv == [Idle EXCEPT !.op = method, !.args = <<other, StrV(path)>>, !.a = r]
    IN  IF r.err # "" THEN Raised(inv, r.err)
        ELSE Forwarded(inv, r.mount_point,
                       Call(r.manager, method, <<other, StrV(r.child_path)>>, {}),
                       ret, TRUE)

path_dispatch_kwarg(method, path, ret) ==
    LET r   == path_lookup(mount_points_managers, path)
        inv == [Idle EXCEPT !.op = method, !.kwargs = {<<"path", StrV(path)>>}, !.a = r]
    IN  IF r.err # "" THEN Raised(inv, r.err)
        ELSE Forwarded(inv, r.mount_point,
                       Call(r.manager, method, <<>>, {<<"path", StrV(r.child_path)>>}),
                       ret, TRUE)

\* path_dispatch_rename comparing the managers' classes instead of the mount
\* points
path_dispatch_rename_by_class(method, path_a, path_b, ret) ==
    LET ra   == path_lookup(mount_points_managers, path_a)
        rb   == path_lookup(mount_points_managers, path_b)
        inv  == [Idle EXCEPT !.op = method, !.args = <<StrV(path_a), StrV(path_b)>>]
    IN  IF ra.err # "" THEN Raised([inv EXCEPT !.a = ra], ra.err)
        ELSE IF rb.err # "" THEN Raised([inv EXCEPT !.a = ra, !.b = rb], rb.err)
        ELSE IF ra.manager.cls # rb.manager.cls
             THEN Raised([inv EXCEPT !.a = ra, !.b = rb], "ValueError")
        ELSE Forwarded([inv EXCEPT !.a = ra, !.b = rb], ra.mount_point,
                       Call(ra.manager, method,
                            <<StrV(ra.child_path), StrV(rb.child_path)>>, {}),
                       ret, TRUE)

\* decorator for rename-like function, that need dispatch on 2 arguments
path_dispatch_rename(method, path_a, path_b, ret) ==
    LET ra   == path_lookup(mount_points_managers, path_a)
        rb   == path_lookup(mount_points_managers, path_b)
        inv  == [Idle EXCEPT !.op = method, !.args = <<StrV(path_a), StrV(path_b)>>]
    IN  IF ra.err # "" THEN Raised([inv EXCEPT !.a = ra], ra.err)
        ELSE IF rb.err # "" THEN Raised([inv EXCEPT !.a = ra, !.b = rb], rb.err)
        ELSE IF ra.mount_point # rb.mount_point
             THEN Raised([inv EXCEPT !.a = ra, !.b = rb], "ValueError")
        ELSE Forwarded([inv EXCEPT !.a = ra, !.b = rb], ra.mount_point,
                       Call(ra.manager, method,
                            <<StrV(ra.child_path), StrV(rb.child_path)>>, {}),
                       ret, TRUE)

\* MixedContentsManager.update: new_model is built and then not used; the
\* backend gets the caller's model, and its result is returned as it is
update_record(model, path, ret) ==
    LET ra  == path_lookup(mount_points_managers, path)
        rb  == path_lookup(mount_points_managers, model.path)
        inv == [Idle EXCEPT !.op = "update", !.args = <<model, StrV(path)>>]
    IN  IF ra.err # "" THEN Raised([inv EXCEPT !.a = ra], ra.err)
        ELSE IF "path" \notin model.keys THEN Raised([inv EXCEPT !.a = ra], "KeyError")
        ELSE IF rb.err # "" THEN Raised([inv EXCEPT !.a = ra, !.b = rb], rb.err)
        ELSE IF ra.mount_point # rb.mount_point
             THEN Raised([inv EXCEPT !.a = ra, !.b = rb], "ValueError")
        ELSE LET new_model == [model EXCEPT !.path = rb.child_path]
             IN  Forwarded([inv EXCEPT !.a = ra, !.b = rb], ra.mount_point,
                           Call(ra.manager, "update", <<model, StrV(ra.child_path)>>, {}),
                           ret, FALSE)

----------------------------------------------------------------------------
(* Inputs *)

Strings(chars, n) == UNION {[1..k -> chars] : k \in 0..n}

Entry(prefix, cls) == prefix \o <<":", ":", ":">> \o cls

SeqsUpTo(S, n) == UNION {[1..k -> S] : k \in 0..n}

\* Paths handed to _path_lookup
PathChars == {".", "/", "b"}
Paths == Strings(PathChars, MaxPathLen)

\* Mount prefixes a configuration may name: plain ones, ones written with
\* leading or trailing separators, and ones with empty or "." segments
ResolvePrefixes ==
    { <<>>, <<"b">>, <<"b", "/", "b">>, <<"b", "b">>,
      <<"/", "b">>, <<"b", "/">>,
      <<".", "/", "b", "/", "b">>, <<"b", "/", "/", "b", "/", "b">> }

ResolveConfigs ==
    { join([i \in 1..Cardinality(S) |-> Entry(sorted_reverse(S)[i], <<"X">>)], <<",">>) :
        S \in {T \in SUBSET ResolvePrefixes : Cardinality(T) <= MaxMounts} }

\* Entries of a configuration string, well formed and not
ParseEntries ==
    { Entry(q, c) : q \in {<<>>, <<"b">>, <<"/", "b", "/">>, <<"b", "/", "c">>},
                    c \in {<<"X">>, <<"Y">>} }
    \cup { <<>>, <<"b">>, <<"b", ":", ":", "X">>,
           <<"b", ":", ":", ":", "X", ":", ":", ":", "Y">> }

ParseConfigs == {join(es, <<",">>) : es \in SeqsUpTo(ParseEntries, MaxMounts)}

\* Mounts and paths of test_get_mount_point
DispatchPrefixes == {<<>>, <<"b">>, <<"b", "/", "c">>}
DispatchPaths ==
    { <<>>, <<"o">>, <<"b">>, <<"b", "/", "o">>, <<"b", "/", "c">>,
      <<"b", "/", "c", "/", "o">> }

\* One manager class for each mount
ClassOf(prefix) == IF prefix = <<"b">> THEN <<"Y">> ELSE <<"X">>

DispatchConfigs ==
    { join([i \in 1..Cardinality(S) |->
               Entry(sorted_reverse(S)[i], ClassOf(sorted_reverse(S)[i]))], <<",">>) :
        S \in {T \in SUBSET DispatchPrefixes : Cardinality(T) <= MaxMounts} }

\* Item records of the contents API, with backend-relative paths
FileM(path) == DictV({"name", "path", "type", "content"}, path, "file", NoneContent)
DirM(path, content) == DictV({"name", "path", "type", "content"}, path, "directory", content)

\* The records a backend returns for the item at path: a file, a directory
\* listed (to the given depth), a directory fetched without its content
\* (content None), a directory record without the content key
RECURSIVE Tree(_, _)
Tree(path, depth) ==
    { FileM(path), DirM(path, ListContent(<<>>)), DirM(path, NoneContent),
      DictV({"name", "path", "type"}, path, "directory", NoContent) }
    \cup ( IF depth = 0 THEN {}
           ELSE { DirM(path, ListContent(<<m>>)) :
                      m \in Tree(IF path = <<>> THEN <<"o">> ELSE path \o <<"/", "o">>,
                                 depth - 1) } )

\* A checkpoint record and a list of them
CheckpointV == DictV({"id", "last_modified"}, <<>>, "", NoContent)
ListV(items) == [NoneV EXCEPT !.kind = "list", !.content = ListContent(items)]

BackendReturns ==
    {NoneV, BoolV(TRUE), CheckpointV, ListV(<<CheckpointV>>)} \cup Tree(<<>>, MaxNest)

\* Arguments of the callers
Models == {DictV({"name", "path", "type"}, path, "file", NoContent) : path \in DispatchPaths}
CheckpointIds == {StrV(<<"c">>)}
GetKwargs == {{}, {<<"content", BoolV(FALSE)>>}}

----------------------------------------------------------------------------
(* Specifications *)

InitWith(configs) ==
    /\ mount_points_config \in configs
    /\ mount_points_managers = NoManagers
    /\ phase = "new"
    /\ down = {}
    /\ last = Idle

\* Construction from a configuration string
InitParse == InitWith(ParseConfigs)
NextParse == Construct
SpecParse == InitParse /\ [][NextParse]_vars

\* Path resolution against a constructed mount table
InitResolve == InitWith(ResolveConfigs)
NextResolve ==
    \/ Construct
    \/ \E path \in Paths : PathLookup(path)
    \/ Return
SpecResolve == InitResolve /\ [][NextResolve]_vars

----------------------------------------------------------------------------
(* The operations of MixedContentsManager *)

\* No invocation is in progress
Ready == phase = "ready" /\ last = Idle

dir_exists ==
    /\ Ready
    /\ \E path \in DispatchPaths, ret \in BackendReturns :
           last' = path_dispatch1("dir_exists", path, {}, ret)
    /\ UNCHANGED <<mount_points_config, mount_points_managers, phase, down>>

is_hidden ==
    /\ Ready
    /\ \E path \in DispatchPaths, ret \in BackendReturns :
           last' = path_dispatch1("is_hidden", path, {}, ret)
    /\ UNCHANGED <<mount_points_config, mount_points_managers, phase, down>>

file_exists ==
    /\ Ready
    /\ \E path \in DispatchPaths, ret \in BackendReturns :
           last' = path_dispatch_kwarg("file_exists", path, ret)
    /\ UNCHANGED <<mount_points_config, mount_points_managers, phase, down>>

exists ==
    /\ Ready
    /\ \E path \in DispatchPaths, ret \in BackendReturns :
           last' = path_dispatch1("exists", path, {}, ret)
    /\ UNCHANGED <<mount_points_config, mount_points_managers, phase, down>>

get ==
    /\ Ready
    /\ \E path \in DispatchPaths, kwargs \in GetKwargs, ret \in BackendReturns :
           last' = path_dispatch1("get", path, kwargs, ret)
    /\ UNCHANGED <<mount_points_config, mount_points_managers, phase, down>>

save ==
    /\ Ready
    /\ \E model \in Models, path \in DispatchPaths, ret \in BackendReturns :
           last' = path_dispatch2("save", model, path, ret)
    /\ UNCHANGED <<mount_points_config, mount_points_managers, phase, down>>

update ==
    /\ Ready
    /\ \E model \in Models, path \in DispatchPaths, ret \in BackendReturns :
           last' = update_record(model, path, ret)
    /\ UNCHANGED <<mount_points_config, mount_points_managers, phase, down>>

delete ==
    /\ Ready
    /\ \E path \in DispatchPaths, ret \in BackendReturns :
           last' = path_dispatch1("delete", path, {}, ret)
    /\ UNCHANGED <<mount_points_config, mount_points_managers, phase, down>>

create_checkpoint ==
    /\ Ready
    /\ \E path \in DispatchPaths, ret \in BackendReturns :
           last' = path_dispatch1("create_checkpoint", path, {}, ret)
    /\ UNCHANGED <<mount_points_config, mount_points_managers, phase, down>>

list_checkpoints ==
    /\ Ready
    /\ \E path \in DispatchPaths, ret \in BackendReturns :
           last' = path_dispatch1("list_checkpoints", path, {}, ret)
    /\ UNCHANGED <<mount_points_config, mount_points_managers, phase, down>>

restore_checkpoint ==
    /\ Ready
    /\ \E checkpoint_id \in CheckpointIds, path \in DispatchPaths, ret \in BackendReturns :
           last' = path_dispatch2("restore_checkpoint", checkpoint_id, path, ret)
    /\ UNCHANGED <<mount_points_config, mount_points_managers, phase, down>>

delete_checkpoint ==
    /\ Ready
    /\ \E checkpoint_id \in CheckpointIds, path \in DispatchPaths, ret \in BackendReturns :
           last' = path_dispatch2("delete_checkpoint", checkpoint_id, path, ret)
    /\ UNCHANGED <<mount_points_config, mount_points_managers, phase, down>>

rename_file ==
    /\ Ready
    /\ \E old_path \in DispatchPaths, new_path \in DispatchPaths, ret \in BackendReturns :
           last' = path_dispatch_rename("rename_file", old_path, new_path, ret)
    /\ UNCHANGED <<mount_points_config, mount_points_managers, phase, down>>

rename ==
    /\ Ready
    /\ \E old_path \in DispatchPaths, new_path \in DispatchPaths, ret \in BackendReturns :
           last' = path_dispatch_rename("rename", old_path, new_path, ret)
    /\ UNCHANGED <<mount_points_config, mount_points_managers, phase, down>>

\* The environment: a mounted backend starts or stops failing
BackendFails ==
    /\ Ready
    /\ \E m \in DOMAIN mount_points_managers \ down : down' = down \cup {m}
    /\ UNCHANGED <<mount_points_config, mount_points_managers, phase, last>>

BackendRecovers ==
    /\ Ready
    /\ \E m \in down : down' = down \ {m}
    /\ UNCHANGED <<mount_points_config, mount_points_managers, phase, last>>

\* The dispatcher over the mounts of the test
Init == InitWith(DispatchConfigs)
Next ==
    \/ Construct
    \/ dir_exists \/ is_hidden \/ file_exists \/ exists \/ get \/ save \/ update
    \/ delete \/ create_checkpoint \/ list_checkpoints
    \/ restore_checkpoint \/ delete_checkpoint \/ rename_file \/ rename
    \/ Return
    \/ BackendFails \/ BackendRecovers
Spec == Init /\ [][Next]_vars

----------------------------------------------------------------------------
(* Vocabulary of the properties *)

\* The path segments of a string: the pieces between separators, without the
\* empty ones and the "." ones
Segments(s) == SelectSeq(split(s, <<"/">>), LAMBDA x : x # <<>> /\ x # <<".">>)

\* a is a complete leading sequence of the segments b
IsLeading(a, b) == Len(a) <= Len(b) /\ SubSeq(b, 1, Len(a)) = a

\* The path of the invocation
ThePath == last.args[1].path

\* The configured prefixes that are segment-wise ancestors of a path
Ancestors(path) ==
    {q \in DOMAIN mount_points_managers : IsLeading(Segments(q), Segments(path))}

\* A path in normal form: stripped, without empty and "." segments
Normal(path) == join(Segments(path), <<"/">>)

\* The entries of a configuration string and the fields of an entry
Entries(conf) == split(conf, <<",">>)
Fields(entry) == split(entry, <<":", ":", ":">>)
WellFormed(entry) == Len(Fields(entry)) = 2

LookedUp == last.op = "_path_lookup"

----------------------------------------------------------------------------
(* Path resolution: C1, C4, C6, C7 *)

\* C1: with every configured prefix free of leading and trailing separators and
\* at least one of them an ancestor of the path, get_mount_point returns an
\* ancestor, and no ancestor has more segments than the one returned.
C1_LongestSegmentPrefix ==
    ( /\ LookedUp
      /\ \A q \in DOMAIN mount_points_managers : strip(q, "/") = q
      /\ Ancestors(ThePath) # {} )
    => /\ last.a.err = ""
       /\ last.a.mount_point \in Ancestors(ThePath)
       /\ \A q \in Ancestors(ThePath) :
              Len(Segments(q)) <= Len(Segments(last.a.mount_point))

\* C4 as stated: joining the resolved prefix and child path and stripping the
\* separators gives back the path with its separators stripped.
C4_RoundTripStripped ==
    (LookedUp /\ last.a.err = "")
    => strip(get_full_path(last.a.mount_point, last.a.child_path), "/")
           = strip(ThePath, "/")

\* C4 amended: joining the resolved prefix and child path and stripping the
\* separators gives back the path in normal form (separators stripped, empty
\* and "." segments dropped).
C4_RoundTripNormal ==
    (LookedUp /\ last.a.err = "")
    => strip(get_full_path(last.a.mount_point, last.a.child_path), "/")
           = Normal(ThePath)

\* C4 witness: a path with an empty or "." segment resolved below a mount
\* other than the root, with a child path left
C4_Witness ==
    /\ LookedUp /\ last.a.err = ""
    /\ last.a.mount_point # <<>> /\ last.a.child_path # <<>>
    /\ strip(ThePath, "/") # Normal(ThePath)

\* C6: resolution fails, with no backend call, exactly when no configured
\* prefix is a segment-wise ancestor of the path; it fails for every path on an
\* empty table and succeeds for every path when the root prefix is configured.
C6_FailsIffNoAncestor ==
    LookedUp
    => /\ (last.a.err = "StopIteration") <=> (Ancestors(ThePath) = {})
       /\ last.a.err \in {"", "StopIteration"}
       /\ (DOMAIN mount_points_managers = {}) => last.a.err = "StopIteration"
       /\ (<<>> \in DOMAIN mount_points_managers) => last.a.err = ""
       /\ last.a.err # "" => last.calls = <<>>

\* C7: a path that is a configured prefix, as configured or written with
\* leading or trailing separators, resolves to that prefix and the empty child
\* path.
C7_MountRootHasEmptyChild ==
    \A q \in DOMAIN mount_points_managers :
        (LookedUp /\ (ThePath = q \/ strip(ThePath, "/") = q))
        => /\ last.a.err = ""
           /\ last.a.mount_point = q
           /\ last.a.child_path = <<>>

----------------------------------------------------------------------------
(* Construction: C8, C9 *)

\* C8: n well-formed entries with distinct prefixes give exactly n bindings,
\* keyed by the prefixes with leading and trailing separators stripped; the
\* empty configuration gives the empty table.
C8_StrippedPrefixes ==
    LET es == Entries(mount_points_config)
        n  == Len(es)
    IN  /\ ( /\ phase # "new" /\ mount_points_config # <<>>
             /\ \A i \in 1..n : WellFormed(es[i])
             /\ \A i, j \in 1..n : i # j => Fields(es[i])[1] # Fields(es[j])[1] )
           => /\ phase = "ready"
              /\ DOMAIN mount_points_managers =
                     {strip(Fields(es[i])[1], "/") : i \in 1..n}
              /\ Cardinality(DOMAIN mount_points_managers) = n
        /\ (phase # "new" /\ mount_points_config = <<>>)
           => (phase = "ready" /\ DOMAIN mount_points_managers = {})

\* C9: a non-empty configuration with an entry that is not of the form
\* prefix:::backend makes construction fail, and no mount table is built.
C9_MalformedFailsFast ==
    ( /\ phase # "new" /\ mount_points_config # <<>>
      /\ \E i \in 1..Len(Entries(mount_points_config)) :
             ~WellFormed(Entries(mount_points_config)[i]) )
    => (phase = "failed" /\ mount_points_managers = NoManagers)

----------------------------------------------------------------------------
(* The dispatcher: C2, C3, C5, C10 *)

RenameOps == {"rename", "rename_file"}
Dispatch1Ops == {"dir_exists", "is_hidden", "exists", "get", "delete",
                 "create_checkpoint", "list_checkpoints"}
Dispatch2Ops == {"save", "restore_checkpoint", "delete_checkpoint"}
DispatchedOps == Dispatch1Ops \cup Dispatch2Ops \cup {"file_exists"}

\* Both paths of a two-path operation resolved
BothResolved ==
    /\ last.op \in RenameOps \cup {"update"}
    /\ last.a.err = "" /\ last.b.err = ""

\* C2: rename, rename_file and update whose two paths resolve to different
\* mount points fail with the cross-mount error before any backend is called.
C2_CrossMountRejected ==
    (BothResolved /\ last.a.mount_point # last.b.mount_point)
    => (last.err = "ValueError" /\ last.calls = <<>>)

\* C2 witness: an update across two mounts was rejected while a backend was
\* failing
C2_Witness ==
    /\ BothResolved /\ last.op = "update"
    /\ last.a.mount_point # last.b.mount_point
    /\ last.err = "ValueError"
    /\ down # {}

\* A record with every path field, at every depth of the content lists of
\* directory records, re-prefixed with the mount point
RECURSIVE Rewritten(_, _)
Rewritten(mount_point, model) ==
    IF model.kind # "dict" THEN model
    ELSE LET m1 == IF "path" \in model.keys
                   THEN [model EXCEPT !.path = get_full_path(mount_point, model.path)]
                   ELSE model
         IN  IF m1.type = "directory" /\ m1.content.ckind = "list"
             THEN [m1 EXCEPT !.content =
                      ListContent([i \in 1..Len(m1.content.items) |->
                                      Rewritten(mount_point, m1.content.items[i])])]
             ELSE m1

\* C3: whatever record the backend returns to get, the caller gets it with
\* every path field rewritten, at every depth.
C3_EveryPathRewritten ==
    (last.op = "get" /\ last.calls # <<>> /\ last.err # "BackendError")
    => /\ last.err = ""
       /\ last.ret = Rewritten(last.a.mount_point, last.raw)

\* C5: when both paths resolve to the same mount point, its backend gets both
\* in backend-relative form: rename(child_a, child_b), and update with the
\* source child path and a model whose path is the destination child path.
C5_BothChildPathsForwarded ==
    (BothResolved /\ last.a.mount_point = last.b.mount_point)
    => last.calls =
         << IF last.op = "update"
            THEN Call(last.a.manager, "update",
                      <<[last.args[1] EXCEPT !.path = last.b.child_path],
                        StrV(last.a.child_path)>>, {})
            ELSE Call(last.a.manager, last.op,
                      <<StrV(last.a.child_path), StrV(last.b.child_path)>>, {}) >>

\* The one backend call a dispatched operation is to make
ExpectedCall ==
    LET manager == mount_points_managers[last.a.mount_point]
        child   == StrV(last.a.child_path)
    IN  IF last.op \in Dispatch1Ops
        THEN Call(manager, last.op, <<child>>, last.kwargs)
        ELSE IF last.op = "file_exists"
        THEN Call(manager, last.op, <<>>, {<<"path", child>>})
        ELSE Call(manager, last.op, <<last.args[1], child>>, {})

\* C10: a dispatched operation whose path resolves makes exactly one backend
\* call: the same operation, on the manager of the resolved mount point, with
\* the child path for the path and the other arguments as given; and the mount
\* table stays the one built at construction.
C10_OneCallToResolvedBackend ==
    /\ (last.op \in DispatchedOps /\ last.a.err = "") => last.calls = <<ExpectedCall>>
    /\ phase = "ready" =>
           mount_points_managers =
               NewManagers(parse_mount_points_config(mount_points_config).val)

\* C10 witness: get with a keyword argument, resolved below the mount b of a
\* table of two mounts, reached its backend
C10_Witness ==
    /\ last.op = "get" /\ last.kwargs # {}
    /\ last.a.err = "" /\ last.a.mount_point = <<"b">> /\ last.a.child_path = <<"o">>
    /\ Cardinality(DOMAIN mount_points_managers) = 2
    /\ Len(last.calls) = 1 /\ last.err = ""

====
